---------------------------- MODULE Spec2Model ----------------------------
(***************************************************************************)
(* Model of lms/djangoapps/monitoring/scripts/process_cookie_monitoring_    *)
(* logs.py: main() loads the rows of a CSV export with _load_csv and        *)
(* aggregates the parsed cookie headers with process_cookie_headers.        *)
(*                                                                          *)
(* Text is modelled as TLA+ strings and processed character by character,   *)
(* the way str.count, str.strip, str.split and the three kinds of regular   *)
(* expression of the script process it.  An optional value (dict.get or a   *)
(* failed re.search returning None) is a sequence of length 0 or 1.         *)
(***************************************************************************)
EXTENDS Integers, Sequences, FiniteSets, TLC

\* ------------------------------------------------------------------ bounds

\* Largest number of rows in the CSV batch.
MaxRows == 2

\* ------------------------------------------------------------ text helpers

None == <<>>
Some(v) == <<v>>

\* s[i] as a one-character string (1-based).
CharAt(s, i) == SubSeq(s, i, i)

Chars(s) == {CharAt(s, i) : i \in 1..Len(s)}

\* s[p:] starts with w  (str.startswith at offset p, 1-based).
StartsWithAt(s, p, w) ==
    /\ p >= 1
    /\ p + Len(w) - 1 <= Len(s)
    /\ SubSeq(s, p, p + Len(w) - 1) = w

\* Positions at which the literal w occurs in s.
Occurrences(s, w) == {p \in 1..Len(s) : StartsWithAt(s, p, w)}

SetMin(S) == CHOOSE x \in S : \A y \in S : x <= y
SetMax(S) == CHOOSE x \in S : \A y \in S : x >= y

\* Character classes of Python's re for the ASCII text of the model.
Digit == Chars("0123456789")
Word == Chars("abcdefghijklmnopqrstuvwxyzABCDEFGHIJKLMNOPQRSTUVWXYZ_") \cup Digit
Whitespace == {" ", "\t"}

\* builtin min / max of two integers
Min2(a, b) == IF b < a THEN b ELSE a
Max2(a, b) == IF b > a THEN b ELSE a

\* str.count(w): non-overlapping occurrences, scanning left to right.
RECURSIVE CountFrom(_, _, _)
CountFrom(s, w, p) ==
    LET next == {q \in Occurrences(s, w) : q >= p}
    IN  IF next = {} THEN 0 ELSE 1 + CountFrom(s, w, SetMin(next) + Len(w))

StrCount(s, w) == CountFrom(s, w, 1)

\* str.strip(): drop leading and trailing whitespace.
Strip(s) ==
    LET keep == {i \in 1..Len(s) : CharAt(s, i) \notin Whitespace}
    IN  IF keep = {} THEN "" ELSE SubSeq(s, SetMin(keep), SetMax(keep))

\* str.split(sep): the pieces between non-overlapping separators, left to right.
RECURSIVE SplitFrom(_, _, _)
SplitFrom(s, sep, start) ==
    LET next == {q \in Occurrences(s, sep) : q >= start}
    IN  IF next = {} THEN <<SubSeq(s, start, Len(s))>>
        ELSE <<SubSeq(s, start, SetMin(next) - 1)>>
             \o SplitFrom(s, sep, SetMin(next) + Len(sep))

Split(s, sep) == SplitFrom(s, sep, 1)

\* int(): value of a non-empty string of decimal digits.
DigitVal(c) == (CHOOSE i \in 1..10 : CharAt("0123456789", i) = c) - 1

RECURSIVE ParseInt(_)
ParseInt(s) ==
    IF Len(s) = 0 THEN 0
    ELSE 10 * ParseInt(SubSeq(s, 1, Len(s) - 1)) + DigitVal(CharAt(s, Len(s)))

\* Length of the longest run of digits starting at position p (greedy \d+).
RECURSIVE DigitRun(_, _)
DigitRun(s, p) ==
    IF p <= Len(s) /\ CharAt(s, p) \in Digit THEN 1 + DigitRun(s, p + 1) ELSE 0

\* ---------------------------------------------- PARAMETERIZED_COOKIES regex

\* Elements of the patterns of the rule table.
Lit(w) == [t |-> "lit", w |-> w, cls |-> {}]
AnyChar == [t |-> "any", w |-> "", cls |-> {}]
Plus(cls) == [t |-> "plus", w |-> "", cls |-> cls]
AnyStar == [t |-> "anystar", w |-> "", cls |-> {}]
EndAnchor == [t |-> "end", w |-> "", cls |-> {}]

\* regex.match(name): the pattern matches a prefix of s starting at s[j].
RECURSIVE MatchAt(_, _, _, _)
MatchAt(pat, k, s, j) ==
    IF k > Len(pat) THEN TRUE
    ELSE LET e == pat[k] IN
         CASE e.t = "lit" -> StartsWithAt(s, j, e.w) /\ MatchAt(pat, k + 1, s, j + Len(e.w))
           [] e.t = "any" -> j <= Len(s) /\ MatchAt(pat, k + 1, s, j + 1)
           [] e.t = "plus" ->
                \E n \in 1..(Len(s) - j + 1) :
                    /\ \A i \in j..(j + n - 1) : CharAt(s, i) \in e.cls
                    /\ MatchAt(pat, k + 1, s, j + n)
           [] e.t = "anystar" ->
                \E n \in 0..(Len(s) - j + 1) : MatchAt(pat, k + 1, s, j + n)
           [] e.t = "end" -> j = Len(s) + 1 /\ MatchAt(pat, k + 1, s, j)

RegexMatch(pat, s) == MatchAt(pat, 1, s, 1)


\* The rule table: <<pattern, replacement name>>, in declaration order.
\* "$" is modelled as the end of the string (names hold no line break).
StorageRule(field) ==
    <<Lit("ab"), AnyChar, Lit("storage"), AnyChar, Lit(field), AnyStar, EndAnchor>>

\* line 27, and the same rule written as loosely as the ab.storage rules
HjSessionPattern_Loose == <<Lit("_hjSession"), AnyStar, EndAnchor>>
HjSessionPattern == <<Lit("_hjSession_"), Plus(Digit), EndAnchor>>

PARAMETERIZED_COOKIES ==
    << <<(<<Lit("_gac_UA-"), Plus(Digit \cup {"-"}), EndAnchor>>), "_gac_UA-{id}">>,
       <<HjSessionPattern, "_hjSession_{id}">>,
       <<(<<Lit("_hjSessionUser_"), Plus(Digit), EndAnchor>>), "_hjSessionUser_{id}">>,
       <<StorageRule("deviceId"), "ab.storage.deviceId.{id}">>,
       <<StorageRule("sessionId"), "ab.storage.deviceId.{id}">>,
       <<StorageRule("userId"), "ab.storage.userId.{id}">>,
       <<(<<Lit("AMCV_"), Plus(Word), Lit("%40AdobeOrg"), EndAnchor>>), "AMCV_{id}@AdobeOrg">>,
       <<(<<Lit("amplitude_id_"), AnyStar, EndAnchor>>), "amplitude_id_{id}">>,
       <<(<<Lit("mp_"), Plus(Word), Lit("_mixpanel"), EndAnchor>>), "mp_{id}_mixpanel">> >>

\* The for/break loop over the table: the first rule that matches renames.
RECURSIVE ReplaceFrom(_, _, _)
ReplaceFrom(table, k, name) ==
    IF k > Len(table) THEN name
    ELSE IF RegexMatch(table[k][1], name) THEN table[k][2]
    ELSE ReplaceFrom(table, k + 1, name)

Normalize(name) == ReplaceFrom(PARAMETERIZED_COOKIES, 1, name)

\* ------------------------------------------------------- _load_csv parsing

BEGIN_MARK == "BEGIN-COOKIE-SIZES"
END_MARK == "END-COOKIE-SIZES"

\* cookie_log_regex.search(raw): None, or the groups of the leftmost match.
\* "\d+" is followed by "\)", so it takes the whole digit run; ".*" is greedy,
\* so cookie_sizes runs to the last END-COOKIE-SIZES.
LogMatchAt(raw, p) ==
    LET d0 == p + Len(BEGIN_MARK) + Len("(total=")
        n == DigitRun(raw, d0)
        body == d0 + n + 1
        ends == {e \in Occurrences(raw, END_MARK) : e >= body}
    IN  IF /\ StartsWithAt(raw, p, BEGIN_MARK \o "(total=")
           /\ n >= 1
           /\ StartsWithAt(raw, d0 + n, ")")
           /\ ends # {}
        THEN Some([total |-> SubSeq(raw, d0, d0 + n - 1),
                   cookie_sizes |-> SubSeq(raw, body, SetMax(ends) - 1)])
        ELSE None

cookie_log_regex_search(raw) ==
    LET hits == {p \in 1..Len(raw) : LogMatchAt(raw, p) # None}
    IN  IF hits = {} THEN None ELSE LogMatchAt(raw, SetMin(hits))

\* cookie_size_regex.search(fragment): "(?P<name>.*)" is greedy, so the name
\* runs to the last ": " that a digit follows, and the match starts at 0.
cookie_size_regex_search(fragment) ==
    LET hits == {q \in Occurrences(fragment, ": ") : DigitRun(fragment, q + 2) >= 1}
        q == SetMax(hits)
    IN  IF hits = {} THEN None
        ELSE Some([name |-> SubSeq(fragment, 1, q - 1),
                   size |-> SubSeq(fragment, q + 2, q + 1 + DigitRun(fragment, q + 2))])

\* cookie_header_sizes[name] = size on an insertion-ordered dict, kept as a
\* sequence of items with distinct names.
DictSet(d, name, size) ==
    IF \E k \in 1..Len(d) : d[k].name = name
    THEN [k \in 1..Len(d) |-> IF d[k].name = name THEN [name |-> name, size |-> size] ELSE d[k]]
    ELSE Append(d, [name |-> name, size |-> size])

\* The loop over the fragments (lines 109-114): the dict built, and one
\* ERROR diagnostic per fragment that does not parse.
RECURSIVE ParseSizes(_, _, _)
ParseSizes(cookie_sizes, k, acc) ==
    IF k > Len(cookie_sizes) THEN acc
    ELSE LET m == cookie_size_regex_search(cookie_sizes[k]) IN
         IF m = None
         THEN ParseSizes(cookie_sizes, k + 1,
                         [acc EXCEPT !.levels = Append(@, "ERROR")])
         ELSE ParseSizes(cookie_sizes, k + 1,
                         [acc EXCEPT !.sizes = DictSet(@, m[1].name, ParseInt(m[1].size))])

RECURSIVE SumOverhead(_, _)
SumOverhead(d, k) ==
    IF k > Len(d) THEN 0 ELSE Len(d[k].name) + d[k].size + 3 + SumOverhead(d, k + 1)

cookie_header_size_computed(cookie_header_sizes) ==
    Max2(0, SumOverhead(cookie_header_sizes, 1) - 2)

\* dateutil's parser.parse on the timestamps of the model: a "YYYY-MM-DD"
\* date gives a comparable value, any other text has no date in it.
IsDate(s) ==
    /\ Len(s) = 10
    /\ \A i \in {1, 2, 3, 4, 6, 7, 9, 10} : CharAt(s, i) \in Digit
    /\ CharAt(s, 5) = "-" /\ CharAt(s, 8) = "-"

parser_parse(s) ==
    IF IsDate(s)
    THEN Some(ParseInt(SubSeq(s, 1, 4)) * 10000 + ParseInt(SubSeq(s, 6, 7)) * 100
              + ParseInt(SubSeq(s, 9, 10)))
    ELSE None

\* ------------------------------------------------------------------- state

VARIABLES
    rows,                            \* reader: the rows of the CSV file
    pc,                              \* "load", "process", "done" or "raised"
    i,                               \* number of the row the loop of _load_csv is at
    cookie_sizes_strings_processed,  \* the payload strings seen in the batch
    cookie_headers,                  \* the records _load_csv has appended
    src,                             \* history: the row each record was built from
    log,                             \* the logging calls made: row and level
    h,                               \* process_cookie_headers: header the loop is at
    c,                               \* process_cookie_headers: item of that header
    processed_cookies                \* name -> statistics (a dict of dicts)

vars == <<rows, pc, i, cookie_sizes_strings_processed, cookie_headers, src, log,
          h, c, processed_cookies>>

\* ------------------------------------------------------------------ inputs

LogLine(total, payload) ==
    "ts=1 " \o BEGIN_MARK \o "(total=" \o total \o ") " \o payload \o " " \o END_MARK

Row(raw, time, index) == [_raw |-> raw, _time |-> time, index |-> index]

D1 == Some("2022-03-01")
D2 == Some("2022-03-02")
D3 == Some("2022-03-03")

\* The rows a batch is drawn from: well-formed lines (the same payload with
\* several totals, timestamps and environments; names of every rule of the
\* table), and every kind of malformed row.
RowSet ==
    { Row(Some(LogLine("90", "csrftoken: 64")), D2, "prod"),
      Row(Some(LogLine("120", "csrftoken: 70")), D1, "stage"),
      Row(Some(BEGIN_MARK \o "(total=75)csrftoken: 64  " \o END_MARK \o " tail"), D3, "stage"),
      Row(Some(LogLine("0", "csrftoken: 64")), D1, "prod"),
      Row(Some(LogLine("90", "_hjSession_1: 5, _hjSession_22: 9")), D2, "prod"),
      Row(Some(LogLine("60", "_hjSession_333: 7, csrftoken: 64")), D1, "stage"),
      Row(Some(LogLine("40", "amplitude_id_: 3, amplitude_id_{id}: 2")), D3, "edge"),
      Row(Some(LogLine("30", "junk, csrftoken: 1, csrftoken: 8")), D3, "prod"),
      Row(Some(BEGIN_MARK \o "(total=5)" \o END_MARK), D1, "prod"),
      Row(Some(LogLine("200",
            "_gac_UA-1-2: 4, _hjSessionUser_7: 2, ab.storage.deviceId.d: 6, "
            \o "ab.storage.sessionId.s: 3, ab.storage.userId.u: 1, "
            \o "AMCV_X1%40AdobeOrg: 8, mp_a_b_mixpanel: 5")), D2, "stage"),
      Row(Some("GET /dashboard 200"), D1, "prod"),
      Row(Some(LogLine("90", "a: 1") \o " " \o LogLine("90", "b: 2")), D1, "prod"),
      Row(Some(BEGIN_MARK \o "(total=) csrftoken: 64 " \o END_MARK), D2, "prod"),
      Row(None, D1, "prod"),
      Row(Some(LogLine("70", "csrftoken: 71")), Some("n/a"), "prod"),
      Row(Some(LogLine("70", "csrftoken: 72")), None, "stage") }

Batches == UNION {[1..n -> RowSet] : n \in 0..MaxRows}

\* {} : a dict without keys
EmptyDict == [k \in {} |-> 0]

Init ==
    /\ rows \in Batches
    /\ pc = "load"
    /\ i = 1
    /\ cookie_sizes_strings_processed = {}
    /\ cookie_headers = <<>>
    /\ src = <<>>
    /\ log = <<>>
    /\ h = 1
    /\ c = 1
    /\ processed_cookies = EmptyDict

\* ------------------------------------------------------------- _load_csv

\* line 99: a declared total of zero skips the row
\* (SkipZeroTotal_Never: the check left out)
SkipZeroTotal_Never(cookie_header_size) == FALSE
SkipZeroTotal(cookie_header_size) == cookie_header_size = 0

\* line 103: the payload was already processed in this batch
\* (AlreadyProcessed_Never: the check left out)
AlreadyProcessed_Never(cookie_sizes_str, processed) == FALSE
AlreadyProcessed(cookie_sizes_str, processed) == cookie_sizes_str \in processed

\* One iteration of the loop over the rows (lines 82-126), as a function of
\* the row and of the set of processed payloads:
\*   raised  an exception leaves the loop (and _load_csv);
\*   levels  the logging calls of the iteration, in order;
\*   seen    the set of processed payloads after the iteration;
\*   header  None, or the record appended to cookie_headers.
RowResult(row, processed) ==
    LET skip(levels) == [raised |-> FALSE, levels |-> levels, seen |-> processed,
                         header |-> None]
    IN
    IF row._raw = None
    THEN \* line 86: None has no attribute count
         [raised |-> TRUE, levels |-> <<>>, seen |-> processed, header |-> None]
    ELSE
    LET raw_cookie_log == row._raw[1]
        cookie_begin_count == StrCount(raw_cookie_log, BEGIN_MARK)
        first == IF cookie_begin_count = 0 THEN <<"INFO">> ELSE <<>>
        match == cookie_log_regex_search(raw_cookie_log)
    IN
    IF cookie_begin_count > 1 THEN skip(<<"WARNING">>)
    ELSE IF match = None THEN skip(first \o <<"ERROR">>)
    ELSE
    LET cookie_header_size == ParseInt(match[1].total)
        cookie_sizes_str == Strip(match[1].cookie_sizes)
    IN
    IF SkipZeroTotal(cookie_header_size) THEN skip(first)
    ELSE IF AlreadyProcessed(cookie_sizes_str, processed) THEN skip(first \o <<"DEBUG">>)
    ELSE
    LET parsed == ParseSizes(Split(cookie_sizes_str, ", "), 1,
                             [levels |-> first, sizes |-> <<>>])
        seen == processed \cup {cookie_sizes_str}
        datetime == IF row._time = None THEN None ELSE parser_parse(row._time[1])
    IN
    IF datetime = None
    THEN \* line 121: parser.parse raises on None and on text with no date
         [raised |-> TRUE, levels |-> parsed.levels, seen |-> seen, header |-> None]
    ELSE [raised |-> FALSE, levels |-> parsed.levels, seen |-> seen,
          header |-> Some([datetime |-> datetime[1],
                           env |-> row.index,
                           cookie_header_size |-> cookie_header_size,
                           cookie_header_size_computed |->
                               cookie_header_size_computed(parsed.sizes),
                           cookie_sizes |-> parsed.sizes])]

RECURSIVE LogEntries(_, _, _)
LogEntries(levels, k, row) ==
    IF k > Len(levels) THEN <<>>
    ELSE <<[row |-> row, level |-> levels[k]]>> \o LogEntries(levels, k + 1, row)

LoadRow ==
    /\ pc = "load"
    /\ i <= Len(rows)
    /\ LET r == RowResult(rows[i], cookie_sizes_strings_processed) IN
       /\ log' = log \o LogEntries(r.levels, 1, i)
       /\ cookie_sizes_strings_processed' = r.seen
       /\ cookie_headers' = cookie_headers \o r.header
       /\ src' = IF r.header = None THEN src ELSE Append(src, i)
       /\ pc' = IF r.raised THEN "raised" ELSE "load"
       /\ i' = IF r.raised THEN i ELSE i + 1
    /\ UNCHANGED <<rows, h, c, processed_cookies>>

\* line 128 and line 55: _load_csv returns, main calls process_cookie_headers
LoadReturn ==
    /\ pc = "load"
    /\ i > Len(rows)
    /\ pc' = "process"
    /\ h' = 1
    /\ c' = 1
    /\ processed_cookies' = EmptyDict
    /\ UNCHANGED <<rows, i, cookie_sizes_strings_processed, cookie_headers, src, log>>

\* ------------------------------------------------ process_cookie_headers

\* d.get(key, default)
Get(d, key, default) == IF key \in DOMAIN d THEN d[key] ELSE default

\* The statistics of one occurrence, each from the entry as it was
\* (processed_cookie) and the occurrence; name is the name after line 149.
Count(processed_cookie) == Get(processed_cookie, "count", 0) + 1

MinSize(processed_cookie, size) == Min2(size, Get(processed_cookie, "min_size", size))

\* (MaxSize_AsMin: min written for max)
MaxSize_AsMin(processed_cookie, size) == Min2(size, Get(processed_cookie, "max_size", 0))
MaxSize(processed_cookie, size) == Max2(size, Get(processed_cookie, "max_size", 0))

FullSize(name, size) == Len(name) + size + 2

MinFullSize(processed_cookie, full_size) ==
    Min2(full_size, Get(processed_cookie, "min_full_size", full_size))

MaxFullSize(processed_cookie, full_size) ==
    Max2(full_size, Get(processed_cookie, "max_full_size", 0))

\* (FirstSeen_FirstRecord: the first record's timestamp kept, no min)
FirstSeen_FirstRecord(processed_cookie, cookie_header) ==
    Get(processed_cookie, "first_seen", cookie_header.datetime)
FirstSeen(processed_cookie, cookie_header) ==
    Min2(cookie_header.datetime,
         Get(processed_cookie, "first_seen", cookie_header.datetime))

Envs(processed_cookie, cookie_header) ==
    Get(processed_cookie, "envs", {}) \cup {cookie_header.env}

MaxCookieCount(processed_cookie, cookie_header) ==
    Max2(Len(cookie_header.cookie_sizes), Get(processed_cookie, "max_cookie_count", 0))

MinCookieCount(processed_cookie, cookie_header) ==
    Min2(Len(cookie_header.cookie_sizes),
         Get(processed_cookie, "min_cookie_count", Len(cookie_header.cookie_sizes)))

MaxHeaderSize(processed_cookie, cookie_header) ==
    Max2(cookie_header.cookie_header_size, Get(processed_cookie, "max_header_size", 0))

\* (MinHeaderSize_Latest: the bound reset to the latest record's size)
MinHeaderSize_Latest(processed_cookie, cookie_header) == cookie_header.cookie_header_size
MinHeaderSize(processed_cookie, cookie_header) ==
    Min2(cookie_header.cookie_header_size,
         Get(processed_cookie, "min_header_size", cookie_header.cookie_header_size))

\* The body of the inner loop from line 152 on: the entry stored under name.
UpdatedCookie(processed_cookie, name, size, cookie_header) ==
    [count |-> Count(processed_cookie),
     min_size |-> MinSize(processed_cookie, size),
     max_size |-> MaxSize(processed_cookie, size),
     min_full_size |-> MinFullSize(processed_cookie, FullSize(name, size)),
     max_full_size |-> MaxFullSize(processed_cookie, FullSize(name, size)),
     first_seen |-> FirstSeen(processed_cookie, cookie_header),
     envs |-> Envs(processed_cookie, cookie_header),
     max_cookie_count |-> MaxCookieCount(processed_cookie, cookie_header),
     min_cookie_count |-> MinCookieCount(processed_cookie, cookie_header),
     max_header_size |-> MaxHeaderSize(processed_cookie, cookie_header),
     min_header_size |-> MinHeaderSize(processed_cookie, cookie_header)]

\* The occurrence the loops are at, and the key it is aggregated under.
AtOccurrence ==
    /\ pc = "process"
    /\ h <= Len(cookie_headers)
    /\ c <= Len(cookie_headers[h].cookie_sizes)

CurrentItem == cookie_headers[h].cookie_sizes[c]
CurrentKey == Normalize(CurrentItem.name)

\* One iteration of the inner loop (lines 142-185).
ProcessCookie ==
    /\ AtOccurrence
    /\ LET name == CurrentKey
           processed_cookie == Get(processed_cookies, name, EmptyDict)
       IN  processed_cookies' =
               (name :> UpdatedCookie(processed_cookie, name, CurrentItem.size,
                                      cookie_headers[h]))
               @@ processed_cookies
    /\ c' = c + 1
    /\ UNCHANGED <<rows, pc, i, cookie_sizes_strings_processed, cookie_headers, src,
                   log, h>>

\* The inner loop is exhausted: the outer loop takes the next header.
NextHeader ==
    /\ pc = "process"
    /\ h <= Len(cookie_headers)
    /\ c > Len(cookie_headers[h].cookie_sizes)
    /\ h' = h + 1
    /\ c' = 1
    /\ UNCHANGED <<rows, pc, i, cookie_sizes_strings_processed, cookie_headers, src,
                   log, processed_cookies>>

\* line 187: process_cookie_headers returns
ProcessReturn ==
    /\ pc = "process"
    /\ h > Len(cookie_headers)
    /\ pc' = "done"
    /\ UNCHANGED <<rows, i, cookie_sizes_strings_processed, cookie_headers, src, log,
                   h, c, processed_cookies>>

Next == LoadRow \/ LoadReturn \/ ProcessCookie \/ NextHeader \/ ProcessReturn

Spec == Init /\ [][Next]_vars

\* -------------------------------------------------- what the claims read

\* What _load_csv reads off a row before the dedup step: whether the row has
\* text, the number of begin-markers, whether the marker pattern matches, the
\* declared total and the payload (the stripped text between the markers).
RowFacts(row) ==
    IF row._raw = None
    THEN [text |-> FALSE, begins |-> 0, matches |-> FALSE, total |-> 0, payload |-> ""]
    ELSE LET m == cookie_log_regex_search(row._raw[1]) IN
         [text |-> TRUE,
          begins |-> StrCount(row._raw[1], BEGIN_MARK),
          matches |-> m # None,
          total |-> IF m = None THEN 0 ELSE ParseInt(m[1].total),
          payload |-> IF m = None THEN "" ELSE Strip(m[1].cookie_sizes)]

\* The row reaches the dedup step with its payload.
ReachesDedup(f) == f.matches /\ f.begins <= 1 /\ f.total # 0

\* The row is discarded before the dedup step.
DiscardedEarly(f) == f.text /\ ~ReachesDedup(f)

TimeParses(row) == row._time # None /\ parser_parse(row._time[1]) # None

\* The facts of the rows of the batch, as pairs <<row number, facts>>.
BatchFacts == {<<k, RowFacts(rows[k])>> : k \in DOMAIN rows}

FactsOf(facts, k) == (CHOOSE p \in facts : p[1] = k)[2]

\* The headers with an occurrence that normalizes to key, and the occurrences.
Contributing(key) ==
    {hh \in 1..Len(cookie_headers) :
        \E k \in 1..Len(cookie_headers[hh].cookie_sizes) :
            Normalize(cookie_headers[hh].cookie_sizes[k].name) = key}

OccurrencesOf(key) ==
    UNION {{<<hh, k>> : k \in {k \in 1..Len(cookie_headers[hh].cookie_sizes) :
                                 Normalize(cookie_headers[hh].cookie_sizes[k].name) = key}}
           : hh \in 1..Len(cookie_headers)}

RawFullSizes(key) ==
    {Len(cookie_headers[o[1]].cookie_sizes[o[2]].name)
       + cookie_headers[o[1]].cookie_sizes[o[2]].size + 2 : o \in OccurrencesOf(key)}

\* ------------------------------------------------------------------ claims

\* C1: the records of _load_csv never hold two records built from the same
\* payload string: a record's payload differs from the payload of every other
\* record and of every earlier row that reached the dedup step, whatever the
\* timestamps, environments and totals; and a batch of two rows with the same
\* payload and non-zero totals that _load_csv returns from holds 1 record.
C1_BatchDedup ==
    LET facts == BatchFacts
        F(k) == FactsOf(facts, k)
    IN
    /\ \A a \in 1..Len(cookie_headers) :
          /\ \A b \in 1..Len(cookie_headers) :
                a # b => F(src[a]).payload # F(src[b]).payload
          /\ \A k \in 1..(src[a] - 1) :
                ReachesDedup(F(k)) => F(k).payload # F(src[a]).payload
    /\ ( /\ pc \in {"process", "done"}
         /\ Len(rows) = 2
         /\ ReachesDedup(F(1)) /\ ReachesDedup(F(2))
         /\ F(1).payload = F(2).payload )
       => Len(cookie_headers) = 1

\* Two rows that differ in total, timestamp and environment but carry the
\* same payload were loaded, and one record came out.
C1_Witness ==
    /\ pc = "done"
    /\ Len(rows) = 2
    /\ rows[1] # rows[2]
    /\ ReachesDedup(RowFacts(rows[1])) /\ ReachesDedup(RowFacts(rows[2]))
    /\ RowFacts(rows[1]).payload = RowFacts(rows[2]).payload
    /\ RowFacts(rows[1]).total # RowFacts(rows[2]).total
    /\ rows[1]._time # rows[2]._time
    /\ Len(cookie_headers) = 1

\* C2: the row loop of _load_csv never raises: no row ends the batch in an
\* error state.
C2_NeverRaises == pc # "raised"

\* C3: once process_cookie_headers has returned, min_full_size and
\* max_full_size of every key are the minimum and the maximum of
\* len(raw_name) + size + 2 over the occurrences that normalize to the key.
C3_FullSizeFromRawName ==
    pc = "done" =>
        \A key \in DOMAIN processed_cookies :
            /\ processed_cookies[key].min_full_size = SetMin(RawFullSizes(key))
            /\ processed_cookies[key].max_full_size = SetMax(RawFullSizes(key))

\* C4: once process_cookie_headers has returned, count of every key is the
\* number of header records with an occurrence that normalizes to the key.
C4_CountIsRecords ==
    pc = "done" =>
        \A key \in DOMAIN processed_cookies :
            processed_cookies[key].count = Cardinality(Contributing(key))

\* C5: every diagnostic logged for a row without a begin-marker is at
\* informational severity.
C5_NoMarkerInfoOnly ==
    \A k \in 1..Len(log) :
        RowFacts(rows[log[k].row]).begins = 0 => log[k].level = "INFO"

\* C6: in every state of the aggregation, every key has min_size <= max_size,
\* min_full_size <= max_full_size, min_cookie_count <= max_cookie_count and
\* min_header_size <= max_header_size.
C6_MinBelowMax ==
    \A key \in DOMAIN processed_cookies :
        LET e == processed_cookies[key] IN
        /\ e.min_size <= e.max_size
        /\ e.min_full_size <= e.max_full_size
        /\ e.min_cookie_count <= e.max_cookie_count
        /\ e.min_header_size <= e.max_header_size

\* A key whose four pairs of bounds have all moved apart.
C6_Witness ==
    \E key \in DOMAIN processed_cookies :
        LET e == processed_cookies[key] IN
        /\ e.min_size < e.max_size
        /\ e.min_full_size < e.max_full_size
        /\ e.min_cookie_count < e.max_cookie_count
        /\ e.min_header_size < e.max_header_size

\* C7: once process_cookie_headers has returned, first_seen of every key is
\* the minimum timestamp of the records that contributed an occurrence to it.
C7_FirstSeenIsMin ==
    pc = "done" =>
        \A key \in DOMAIN processed_cookies :
            processed_cookies[key].first_seen =
                SetMin({cookie_headers[hh].datetime : hh \in Contributing(key)})

\* A key whose earliest record was processed after a later one.
C7_Witness ==
    /\ pc = "done"
    /\ \E key \in DOMAIN processed_cookies :
          \E a, b \in Contributing(key) :
              /\ a < b
              /\ cookie_headers[b].datetime < cookie_headers[a].datetime
              /\ processed_cookies[key].first_seen = cookie_headers[b].datetime

\* C8: every template of the rule table normalizes to itself, and so does
\* every normalized name: Normalize(Normalize(n)) = Normalize(n) for the raw
\* name n of every occurrence the aggregation comes to, and every aggregation
\* key is a fixed point.
C8_NormalizeIdempotent ==
    /\ \A k \in 1..Len(PARAMETERIZED_COOKIES) :
          Normalize(PARAMETERIZED_COOKIES[k][2]) = PARAMETERIZED_COOKIES[k][2]
    /\ AtOccurrence => Normalize(CurrentKey) = CurrentKey
    /\ \A key \in DOMAIN processed_cookies : Normalize(key) = key

\* A template name that a rule matches arrived as a raw name and was
\* aggregated, next to a raw name that normalization renamed.
C8_Witness ==
    /\ pc = "done"
    /\ \E hh \in 1..Len(cookie_headers) :
          \E k \in 1..Len(cookie_headers[hh].cookie_sizes) :
              LET n == cookie_headers[hh].cookie_sizes[k].name IN
              /\ \E r \in 1..Len(PARAMETERIZED_COOKIES) :
                    /\ RegexMatch(PARAMETERIZED_COOKIES[r][1], n)
                    /\ PARAMETERIZED_COOKIES[r][2] = n
              /\ n \in DOMAIN processed_cookies
    /\ \E key \in DOMAIN processed_cookies :
          \E hh \in Contributing(key) :
              \A k \in 1..Len(cookie_headers[hh].cookie_sizes) :
                  cookie_headers[hh].cookie_sizes[k].name # key

\* C9: a step of the inner loop never lowers a max field and never raises a
\* min field or first_seen of the key it updates, adds 1 to its count
\* (a new key starts at 1), only adds to its envs, and leaves the entry of
\* every other key as it was.
C9_BoundsNeverReset ==
    [][AtOccurrence =>
        LET key == CurrentKey
            new == processed_cookies'[key]
        IN  /\ DOMAIN processed_cookies' = DOMAIN processed_cookies \cup {key}
            /\ \A other \in DOMAIN processed_cookies \ {key} :
                  processed_cookies'[other] = processed_cookies[other]
            /\ key \notin DOMAIN processed_cookies => new.count = 1
            /\ key \in DOMAIN processed_cookies =>
                  LET old == processed_cookies[key] IN
                  /\ new.count = old.count + 1
                  /\ new.max_size >= old.max_size
                  /\ new.max_full_size >= old.max_full_size
                  /\ new.max_cookie_count >= old.max_cookie_count
                  /\ new.max_header_size >= old.max_header_size
                  /\ new.min_size <= old.min_size
                  /\ new.min_full_size <= old.min_full_size
                  /\ new.min_cookie_count <= old.min_cookie_count
                  /\ new.min_header_size <= old.min_header_size
                  /\ new.first_seen <= old.first_seen
                  /\ old.envs \subseteq new.envs
    ]_vars

\* The loop stands at an occurrence of a key that is already in the mapping,
\* next to another key, with a size below the key's min_size and a header
\* size below its max_header_size.
C9_Witness ==
    /\ AtOccurrence
    /\ CurrentKey \in DOMAIN processed_cookies
    /\ DOMAIN processed_cookies # {CurrentKey}
    /\ CurrentItem.size < processed_cookies[CurrentKey].min_size
    /\ cookie_headers[h].cookie_header_size < processed_cookies[CurrentKey].max_header_size

\* C10: a row discarded before the dedup step leaves the set of processed
\* payloads and the records unchanged; so a row that reaches the dedup step
\* with a payload that no earlier row reached it with (earlier rows with the
\* same payload and total=0 included) and a timestamp that parses appends
\* one record.
C10_EarlyDiscardFrame ==
    [][(pc = "load" /\ i <= Len(rows)) =>
        LET facts == BatchFacts
            F(k) == FactsOf(facts, k)
        IN
        /\ DiscardedEarly(F(i)) =>
              /\ cookie_sizes_strings_processed' = cookie_sizes_strings_processed
              /\ cookie_headers' = cookie_headers
        /\ ( /\ ReachesDedup(F(i))
             /\ TimeParses(rows[i])
             /\ \A k \in 1..(i - 1) :
                   ReachesDedup(F(k)) => F(k).payload # F(i).payload )
           => /\ Len(cookie_headers') = Len(cookie_headers) + 1
              /\ src' = Append(src, i)
    ]_vars

\* A record built from a row that follows a total=0 row with the same payload.
C10_Witness ==
    \E a \in 1..Len(cookie_headers) :
        \E k \in 1..(src[a] - 1) :
            /\ RowFacts(rows[k]).matches
            /\ RowFacts(rows[k]).begins = 1
            /\ RowFacts(rows[k]).total = 0
            /\ RowFacts(rows[k]).payload = RowFacts(rows[src[a]]).payload

==========================================================================
